---- MODULE Spec2Model ----
(***************************************************************************)
(* hast-util-to-parse5: toParse5(tree, space) of lib/index.js.             *)
(*                                                                         *)
(* The source (hast) tree is a nested record; the produced (parse5) tree   *)
(* is a heap of objects, because produced nodes point back at their parent *)
(* (parentNode) and forward at their children (childNodes).  An object of  *)
(* the heap is named by its index; undefined is index 0.                   *)
(*                                                                         *)
(* A JavaScript string that the code searches for ':' (a property key) is  *)
(* a sequence of segments, a ":" segment being one colon character and any *)
(* other segment a run of characters without a colon; all other strings    *)
(* are TLA+ strings.                                                       *)
(***************************************************************************)
EXTENDS Integers, Sequences, FiniteSets, TLC

VARIABLES tree, space, pc, result, again

vars == <<tree, space, pc, result, again>>

(***************************************************************************)
(* Bounds of the checked inputs.                                           *)
(***************************************************************************)
\* nodes of a source tree drawn from all node kinds (Spec)
MaxNodes == 3
\* element nodes below the root of a source tree of elements (SpecNs)
MaxElems == 4
\* entries of a property mapping (SpecAttrs)
MaxProps == 2
\* largest line, column or offset of a position (SpecPos)
MaxCoord == 1

(***************************************************************************)
(* JavaScript values.                                                      *)
(***************************************************************************)
\* the value undefined where an object reference is expected
undefined == 0

\* the value undefined where a number is expected
undefinedNumber == 0 - 1

\* the value null of Info.space
null == "null"

JsBool(b) == [t |-> "boolean", b |-> b, n |-> 0, s |-> ""]

JsNum(n) == [t |-> "number", b |-> FALSE, n |-> n, s |-> ""]

JsStr(s) == [t |-> "string", b |-> FALSE, n |-> 0, s |-> s]

Digit == <<"0", "1", "2", "3", "4", "5", "6", "7", "8", "9">>

RECURSIVE NumberToString(_)
NumberToString(n) ==
  IF n < 10 THEN Digit[n + 1]
  ELSE NumberToString(n \div 10) \o Digit[(n % 10) + 1]

\* String(v)
String(v) ==
  CASE v.t = "boolean" -> (IF v.b THEN "true" ELSE "false")
    [] v.t = "number" -> NumberToString(v.n)
    [] OTHER -> v.s

\* !v
Falsy(v) ==
  \/ v.t = "boolean" /\ ~v.b
  \/ v.t = "number" /\ v.n = 0
  \/ v.t = "string" /\ v.s = ""

\* key.indexOf(':'), 1-based; 0 when there is no colon
indexOf(key) ==
  IF \E i \in 1..Len(key) : key[i] = ":"
  THEN CHOOSE i \in 1..Len(key) : key[i] = ":" /\ \A j \in 1..(i - 1) : key[j] # ":"
  ELSE 0

(***************************************************************************)
(* The collaborators: web-namespaces and property-information.             *)
(***************************************************************************)
ns ==
  [html |-> "http://www.w3.org/1999/xhtml",
   svg |-> "http://www.w3.org/2000/svg",
   xlink |-> "http://www.w3.org/1999/xlink",
   xml |-> "http://www.w3.org/XML/1998/namespace",
   xmlns |-> "http://www.w3.org/2000/xmlns/"]

Info(boolean, sp) == [boolean |-> boolean, space |-> sp]

\* what both schemas define: the xlink, xml and xmlns attributes
ForeignInfo ==
  (<<"xlink", ":", "href">> :> Info(FALSE, "xlink"))
  @@ (<<"xml", ":", "lang">> :> Info(FALSE, "xml"))
  @@ (<<"xmlns">> :> Info(FALSE, "xmlns"))
  @@ (<<"xmlns", ":", "xlink">> :> Info(FALSE, "xmlns"))

html ==
  [space |-> "html",
   info |-> ForeignInfo
            @@ (<<"id">> :> Info(FALSE, "html"))
            @@ (<<"disabled">> :> Info(TRUE, "html"))]

svg ==
  [space |-> "svg",
   info |-> ForeignInfo
            @@ (<<"id">> :> Info(FALSE, "svg"))
            @@ (<<"viewBox">> :> Info(FALSE, "svg"))]

\* find(schema, key): a key the schema does not define is a plain Info
find(schema, key) ==
  IF key \in DOMAIN schema.info THEN schema.info[key] ELSE Info(FALSE, null)

(***************************************************************************)
(* patch                                                                   *)
(***************************************************************************)
NoLocation ==
  [startLine |-> undefinedNumber, startCol |-> undefinedNumber,
   startOffset |-> undefinedNumber, endLine |-> undefinedNumber,
   endCol |-> undefinedNumber, endOffset |-> undefinedNumber]

\* position && position.start && position.end
patchGuard(position) ==
  position.present /\ position.start.present /\ position.end.present

\* a produced object: fields names the properties the object has
patch(node, p5) ==
  LET position == node.position
  IN  IF patchGuard(position)
      THEN [p5 EXCEPT
              !.sourceCodeLocation =
                 [startLine |-> position.start.line,
                  startCol |-> position.start.column,
                  startOffset |-> position.start.offset,
                  endLine |-> position.end.line,
                  endCol |-> position.end.column,
                  endOffset |-> position.end.offset],
              !.fields = @ \cup {"sourceCodeLocation"}]
      ELSE p5

(***************************************************************************)
(* The produced objects.  Every object of the heap has the same record     *)
(* shape; fields names the properties the object really has.               *)
(***************************************************************************)
Blank ==
  [nodeName |-> "", mode |-> "", tagName |-> "", attrs |-> <<>>,
   namespaceURI |-> "", childNodes |-> <<>>, content |-> undefined,
   value |-> "", data |-> "", name |-> "", publicId |-> "", systemId |-> "",
   parentNode |-> undefined, sourceCodeLocation |-> NoLocation, fields |-> {}]

\* the state a call threads through: the heap of produced objects and
\* whether an exception is propagating; and what the call hands back: ret
\* (the returned object), list (the array all returns), src (the source
\* node as the call leaves it), srcs (the children as all leaves them)
Start == [heap |-> <<>>, threw |-> FALSE, ret |-> undefined, list |-> <<>>,
          src |-> <<>>, srcs |-> <<>>]

\* new object: its reference
New(st) == Len(st.heap) + 1

Alloc(st, p5) == [st EXCEPT !.heap = Append(@, p5)]

Throw(st) == [st EXCEPT !.threw = TRUE, !.ret = undefined]

(***************************************************************************)
(* doctype, text, comment                                                  *)
(***************************************************************************)
doctype(node, st) ==
  [Alloc(st, patch(node,
     [Blank EXCEPT !.nodeName = "#documentType", !.name = "html",
                   !.publicId = "", !.systemId = "", !.parentNode = undefined,
                   !.fields = {"nodeName", "name", "publicId", "systemId",
                               "parentNode"}]))
   EXCEPT !.ret = New(st), !.src = node]

text(node, st) ==
  [Alloc(st, patch(node,
     [Blank EXCEPT !.nodeName = "#text", !.value = node.value,
                   !.parentNode = undefined,
                   !.fields = {"nodeName", "value", "parentNode"}]))
   EXCEPT !.ret = New(st), !.src = node]

comment(node, st) ==
  [Alloc(st, patch(node,
     [Blank EXCEPT !.nodeName = "#comment", !.data = node.value,
                   !.parentNode = undefined,
                   !.fields = {"nodeName", "data", "parentNode"}]))
   EXCEPT !.ret = New(st), !.src = node]

(***************************************************************************)
(* h: the attributes                                                       *)
(***************************************************************************)
\* the loop without its test attrs[key] === false
hSkipBooleanOnly(schema, key, v) == find(schema, key).boolean /\ Falsy(v)

\* the two continue statements of the loop over attrs
hSkip(schema, key, v) ==
  \/ v = JsBool(FALSE)
  \/ find(schema, key).boolean /\ Falsy(v)

\* attrs[key] === true ? '' : String(attrs[key])
hValue(v) == IF v = JsBool(TRUE) THEN "" ELSE String(v)

\* info.space && info.space !== 'html' && info.space !== 'svg'
hForeign(info) ==
  info.space # null /\ info.space # "" /\ info.space # "html" /\ info.space # "svg"

\* key.slice(index) in place of key.slice(index + 1)
hNameWithColon(key, index) == SubSeq(key, index, Len(key))

\* key.slice(index + 1)
hName(key, index) == SubSeq(key, index + 1, Len(key))

\* the entry pushed for key: a P5Attribute, has naming its optional fields
hAttribute(schema, key, v) ==
  LET info == find(schema, key)
      value == [name |-> key, value |-> hValue(v), prefix |-> <<>>,
                namespace |-> "", has |-> {}]
      index == indexOf(key)
  IN  IF hForeign(info)
      THEN [(IF index = 0
             THEN [value EXCEPT !.prefix = <<>>]
             ELSE [value EXCEPT !.name = hName(key, index),
                                !.prefix = SubSeq(key, 1, index - 1)])
            EXCEPT !.namespace = ns[info.space],
                   !.has = {"prefix", "namespace"}]
      ELSE value

\* for (key in attrs): attrs is the mapping as the sequence of its entries,
\* in the order for..in visits them
RECURSIVE hValues(_, _, _, _)
hValues(schema, attrs, i, values) ==
  IF i > Len(attrs) THEN values
  ELSE IF hSkip(schema, attrs[i].key, attrs[i].value)
       THEN hValues(schema, attrs, i + 1, values)
       ELSE hValues(schema, attrs, i + 1,
                    Append(values, hAttribute(schema, attrs[i].key, attrs[i].value)))

\* the switch to svg made for every element below html
hSchemaAlways(schema, tagName) ==
  IF schema.space = "html" THEN svg ELSE schema

\* if (schema.space === 'html' && node.tagName === 'svg') schema = svg
hSchema(schema, tagName) ==
  IF schema.space = "html" /\ tagName = "svg" THEN svg ELSE schema

(***************************************************************************)
(* all, root, fragment, element, one, toParse5                             *)
(***************************************************************************)
\* an optional array: node.children
Some(items) == [present |-> TRUE, items |-> items]

None == [present |-> FALSE, items |-> <<>>]

RECURSIVE one(_, _, _)

\* the assignment child.parentNode = p5 left out
allLinkNone(p5obj, p5) == p5obj

\* child.parentNode = p5
allLink(p5obj, p5) ==
  [p5obj EXCEPT !.parentNode = p5, !.fields = @ \cup {"parentNode"}]

\* result.unshift(child) in place of result.push(child)
allPushFront(res, child) == <<child>> \o res

\* result.push(child)
allPush(res, child) == Append(res, child)

\* while (++index < children.length): cs is children, the entries before
\* index as their conversion left them; res is result
RECURSIVE allLoop(_, _, _, _, _, _)
allLoop(cs, index, res, p5, schema, st) ==
  IF index > Len(cs) THEN [st EXCEPT !.list = res, !.srcs = cs]
  ELSE LET r == one(cs[index], schema, st)
           cs1 == [cs EXCEPT ![index] = r.src]
       IN  IF r.threw THEN [r EXCEPT !.list = res, !.srcs = cs1]
           ELSE IF r.ret = undefined
           \* child.parentNode = p5 on undefined: a TypeError
           THEN [Throw(r) EXCEPT !.list = res, !.srcs = cs1]
           ELSE allLoop(cs1, index + 1, allPush(res, r.ret), p5, schema,
                        [r EXCEPT !.heap[r.ret] = allLink(@, p5)])

all(children, p5, schema, st) ==
  IF children.present
  THEN allLoop(children.items, 1, <<>>, p5, schema, st)
  ELSE [st EXCEPT !.list = <<>>, !.srcs = <<>>]

\* the source node with its children as all left them
WithChildren(node, r) ==
  IF node.children.present THEN [node EXCEPT !.children = Some(r.srcs)] ELSE node

\* (node.data || {}).quirksMode ? 'quirks' : 'no-quirks'
rootMode(node) ==
  IF node.data.present /\ node.data.quirksMode THEN "quirks" ELSE "no-quirks"

root(node, schema, st) ==
  LET p5 == New(st)
      s1 == Alloc(st, [Blank EXCEPT !.nodeName = "#document",
                                    !.mode = rootMode(node),
                                    !.childNodes = <<>>,
                                    !.fields = {"nodeName", "mode", "childNodes"}])
      s2 == all(node.children, p5, schema, s1)
  IN  IF s2.threw THEN [s2 EXCEPT !.src = WithChildren(node, s2)]
      ELSE [s2 EXCEPT !.heap[p5] = patch(node, [@ EXCEPT !.childNodes = s2.list]),
                      !.ret = p5, !.src = WithChildren(node, s2)]

\* fragment(node.content, schema): content is the array of at most one node
\* that holds node.content; node.children of undefined is a TypeError
fragment(content, schema, st) ==
  IF content = <<>> THEN [Throw(st) EXCEPT !.src = <<>>]
  ELSE LET node == content[1]
           p5 == New(st)
           s1 == Alloc(st, [Blank EXCEPT !.nodeName = "#document-fragment",
                                         !.childNodes = <<>>,
                                         !.fields = {"nodeName", "childNodes"}])
           s2 == all(node.children, p5, schema, s1)
       IN  IF s2.threw THEN [s2 EXCEPT !.src = <<WithChildren(node, s2)>>]
           ELSE [s2 EXCEPT !.heap[p5] = patch(node, [@ EXCEPT !.childNodes = s2.list]),
                           !.ret = p5, !.src = <<WithChildren(node, s2)>>]

\* the test applied to every element that carries a content field
hContentAny(name, node) == node.content # <<>>

\* if (name === 'template') p5.content = ...
hContent(name, node) == name = "template"

\* h(name, attrs), with the node and schema of the enclosing element call
h(name, attrs, node, schema0, st) ==
  LET values == hValues(schema0, attrs, 1, <<>>)
      schema == hSchema(schema0, node.tagName)
      p5 == New(st)
      s1 == Alloc(st, patch(node,
              [Blank EXCEPT !.nodeName = name, !.tagName = name,
                            !.attrs = values,
                            !.namespaceURI = ns[schema.space],
                            !.childNodes = <<>>, !.parentNode = undefined,
                            !.fields = {"nodeName", "tagName", "attrs",
                                        "namespaceURI", "childNodes",
                                        "parentNode"}]))
      s2 == all(node.children, p5, schema, s1)
      n2 == WithChildren(node, s2)
      s3 == [s2 EXCEPT !.heap[p5].childNodes = s2.list]
      s4 == fragment(node.content, schema, s3)
  IN  IF s2.threw THEN [s2 EXCEPT !.src = n2]
      ELSE IF ~hContent(name, node) THEN [s3 EXCEPT !.ret = p5, !.src = n2]
      ELSE IF s4.threw THEN [s4 EXCEPT !.src = [n2 EXCEPT !.content = s4.src]]
      ELSE [s4 EXCEPT !.heap[p5].content = s4.ret,
                      !.heap[p5].fields = @ \cup {"content"},
                      !.ret = p5, !.src = [n2 EXCEPT !.content = s4.src]]

\* Object.assign(node, {children: []}): the source node is the target
elementAssignInPlace(node) ==
  [arg |-> [node EXCEPT !.children = Some(<<>>)],
   node |-> [node EXCEPT !.children = Some(<<>>)]]

\* Object.assign({}, node, {children: []}): arg is the object handed to toH,
\* node is the source node afterwards (the target of the assignment is a
\* new object, so node keeps its children)
elementAssign(node) ==
  [arg |-> [node EXCEPT !.children = Some(<<>>)], node |-> node]

\* toH(h, arg, {space}): with no children to walk and a plain function h,
\* hast-to-hyperscript calls h once, with the element's tag name and its
\* properties under their attribute names
toH(arg, node, schema, st) == h(arg.tagName, arg.properties, node, schema, st)

element(node, schema, st) ==
  LET assigned == elementAssign(node)
  IN  toH(assigned.arg, assigned.node, schema, st)

\* zwitch('type', {handlers}): no handler for the type, nothing is called
\* and one returns undefined
handlers == {"root", "element", "text", "comment", "doctype"}

one(node, schema, st) ==
  IF node.type \notin handlers THEN [st EXCEPT !.ret = undefined, !.src = node]
  ELSE CASE node.type = "root" -> root(node, schema, st)
         [] node.type = "element" -> element(node, schema, st)
         [] node.type = "text" -> text(node, st)
         [] node.type = "comment" -> comment(node, st)
         [] node.type = "doctype" -> doctype(node, st)

\* one(tree, space === 'svg' ? svg : html)
toParse5Schema(sp) == IF sp = "svg" THEN svg ELSE html

toParse5(t, sp) == one(t, toParse5Schema(sp), Start)

(***************************************************************************)
(* Source trees.                                                           *)
(***************************************************************************)
NoPoint ==
  [present |-> FALSE, line |-> undefinedNumber, column |-> undefinedNumber,
   offset |-> undefinedNumber]

NoPosition == [present |-> FALSE, start |-> NoPoint, end |-> NoPoint]

NoData == [present |-> FALSE, quirksMode |-> FALSE]

Data(q) == [present |-> TRUE, quirksMode |-> q]

Node ==
  [type |-> "", tagName |-> "", properties |-> <<>>, children |-> None,
   content |-> <<>>, value |-> "", data |-> NoData, position |-> NoPosition]

Root(children, data) ==
  [Node EXCEPT !.type = "root", !.children = children, !.data = data]

Element(tagName, properties, children, content) ==
  [Node EXCEPT !.type = "element", !.tagName = tagName,
               !.properties = properties, !.children = children,
               !.content = content]

Text(value) == [Node EXCEPT !.type = "text", !.value = value]

Comment(value) == [Node EXCEPT !.type = "comment", !.value = value]

Doctype == [Node EXCEPT !.type = "doctype"]

\* a node of a kind the dispatcher has no handler for
Raw == [Node EXCEPT !.type = "raw", !.value = "<b>"]

\* the space argument: "undefined" is the argument left out
Spaces == {"html", "svg", "mathml", "undefined"}

Tags == {"div", "svg", "template"}

\* the nodes without children
Leaves == {Text("x"), Comment("c"), Doctype, Raw, Element("div", <<>>, None, <<>>)}

\* the child lists of f in all that a tree of n nodes can have, F[k + 1]
\* being the child lists of k nodes in all
TreesOver(F, n) ==
  (IF n = 1 THEN Leaves ELSE {})
  \cup {Root(Some(f), NoData) : f \in F[n]}
  \cup {Element(tag, <<>>, Some(f), <<>>) : tag \in Tags, f \in F[n]}
  \cup UNION {{Element(tag, <<>>, Some(f), <<Root(Some(g), NoData)>>) :
                 tag \in Tags, f \in F[k + 1], g \in F[n - 1 - k]} :
              k \in 0..(n - 2)}

\* Sized(n).T[k]: the source trees of exactly k nodes, k in 1..n;
\* Sized(n).F[k + 1]: the child lists of k nodes in all, k in 0..n.
\* A content sub-tree is a root and counts.
RECURSIVE Sized(_)
Sized(n) ==
  IF n = 0 THEN [T |-> <<>>, F |-> <<{<<>>}>>]
  ELSE LET prev == Sized(n - 1)
           T == Append(prev.T, TreesOver(prev.F, n))
           Fn == UNION {{<<t>> \o f : t \in T[k], f \in prev.F[n - k + 1]} : k \in 1..n}
       IN  [T |-> T, F |-> Append(prev.F, Fn)]

\* the source trees of at most max nodes
Inputs(max) == LET S == Sized(max) IN UNION {S.T[n] : n \in 1..max}

(***************************************************************************)
(* The calls.                                                              *)
(***************************************************************************)
NoResult == [kind |-> "none", value |-> undefined, heap |-> <<>>]

\* what the caller of toParse5 gets: the returned reference and the objects
\* behind it, or the exception
Outcome(r) ==
  IF r.threw THEN [kind |-> "threw", value |-> undefined, heap |-> <<>>]
  ELSE IF r.ret = undefined THEN [kind |-> "returned", value |-> undefined, heap |-> <<>>]
  ELSE [kind |-> "returned", value |-> r.ret, heap |-> r.heap]

Init ==
  /\ tree \in Inputs(MaxNodes)
  /\ space \in Spaces
  /\ pc = "start"
  /\ result = NoResult
  /\ again = NoResult

\* toParse5(tree, space)
Call ==
  /\ pc = "start"
  /\ LET r == toParse5(tree, space)
     IN  /\ result' = Outcome(r)
         /\ tree' = r.src
  /\ pc' = "called"
  /\ UNCHANGED <<space, again>>

\* toParse5(tree, space) once more, on the tree the first call left
CallAgain ==
  /\ pc = "called"
  /\ LET r == toParse5(tree, space)
     IN  /\ again' = Outcome(r)
         /\ tree' = r.src
  /\ pc' = "done"
  /\ UNCHANGED <<space, result>>

Next == Call \/ CallAgain

Spec == Init /\ [][Next]_vars

(***************************************************************************)
(* SpecNs: roots over forests of elements, to reach nested svg subtrees.   *)
(***************************************************************************)
\* the trees of n elements over the child lists F: elements named div or
\* svg, and a template whose content holds the sub-trees
ElemTreesOver(F, n) ==
  {Element(tag, <<>>, Some(f), <<>>) : tag \in {"div", "svg"}, f \in F[n]}
  \cup {Element("template", <<>>, Some(<<>>), <<Root(Some(f), NoData)>>) : f \in F[n]}

\* ElemSized(n).F[k + 1]: the child lists of k elements in all, k in 0..n
RECURSIVE ElemSized(_)
ElemSized(n) ==
  IF n = 0 THEN [T |-> <<>>, F |-> <<{<<>>}>>]
  ELSE LET prev == ElemSized(n - 1)
           T == Append(prev.T, ElemTreesOver(prev.F, n))
           Fn == UNION {{<<t>> \o f : t \in T[k], f \in prev.F[n - k + 1]} : k \in 1..n}
       IN  [T |-> T, F |-> Append(prev.F, Fn)]

\* the roots over at most max elements
InputsNs(max) ==
  LET S == ElemSized(max)
  IN  {Root(Some(f), NoData) : f \in UNION {S.F[n + 1] : n \in 0..max}}

InitNs ==
  /\ tree \in InputsNs(MaxElems)
  /\ space \in Spaces
  /\ pc = "start"
  /\ result = NoResult
  /\ again = NoResult

SpecNs == InitNs /\ [][Next]_vars

(***************************************************************************)
(* What the claims speak of.                                               *)
(***************************************************************************)
\* the first call returned a node
Returned == pc # "start" /\ result.kind = "returned" /\ result.value # undefined

Heap == result.heap

IsObject(id) == id \in 1..Len(Heap)

Kids(node) == IF node.children.present THEN node.children.items ELSE <<>>

IsTemplate(node) == node.type = "element" /\ node.tagName = "template"

\* the children of the content sub-tree of a template
ContentKids(node) == IF node.content = <<>> THEN <<>> ELSE Kids(node.content[1])

NameOf(node) ==
  CASE node.type = "root" -> "#document"
    [] node.type = "element" -> node.tagName
    [] node.type = "text" -> "#text"
    [] node.type = "comment" -> "#comment"
    [] node.type = "doctype" -> "#documentType"
    [] OTHER -> "#unsupported"

\* the nodes the dispatcher is handed when nothing throws: the node, its
\* children and, for a template, the children of its content
RECURSIVE Supported(_)
Supported(node) ==
  /\ node.type \in {"root", "element", "text", "comment", "doctype"}
  /\ node.type \in {"root", "element"} =>
       \A i \in 1..Len(Kids(node)) : Supported(Kids(node)[i])
  /\ IsTemplate(node) =>
       \A i \in 1..Len(ContentKids(node)) : Supported(ContentKids(node)[i])

RECURSIVE TemplatesHaveContent(_)
TemplatesHaveContent(node) ==
  /\ IsTemplate(node) =>
       /\ node.content # <<>>
       /\ \A i \in 1..Len(ContentKids(node)) : TemplatesHaveContent(ContentKids(node)[i])
  /\ node.type \in {"root", "element"} =>
       \A i \in 1..Len(Kids(node)) : TemplatesHaveContent(Kids(node)[i])

\* every (source node, produced object) pair of the conversion satisfies P:
\* the pairs are found by position, child i with childNodes[i]
RECURSIVE Sum(_)
Sum(q) == IF q = <<>> THEN 0 ELSE Head(q) + Sum(Tail(q))

RECURSIVE Count(_)
Count(node) ==
  1 + (IF node.type \in {"root", "element"}
       THEN Sum([i \in 1..Len(Kids(node)) |-> Count(Kids(node)[i])])
       ELSE 0)
    + (IF IsTemplate(node) /\ node.content # <<>>
       THEN 1 + Sum([i \in 1..Len(ContentKids(node)) |-> Count(ContentKids(node)[i])])
       ELSE 0)

RECURSIVE Flat(_)
Flat(q) == IF q = <<>> THEN <<>> ELSE Head(q) \o Flat(Tail(q))

\* the node names of the source tree in depth-first order, as the claim
\* maps the kinds
RECURSIVE SourceNames(_)
SourceNames(node) ==
  <<NameOf(node)>>
  \o (IF node.type \in {"root", "element"}
      THEN Flat([i \in 1..Len(Kids(node)) |-> SourceNames(Kids(node)[i])])
      ELSE <<>>)
  \o (IF IsTemplate(node) /\ node.content # <<>>
      THEN <<"#document-fragment">>
           \o Flat([i \in 1..Len(ContentKids(node)) |-> SourceNames(ContentKids(node)[i])])
      ELSE <<>>)

\* the node names of the produced tree in depth-first order, by childNodes
\* and content
RECURSIVE ProducedNames(_)
ProducedNames(id) ==
  LET o == Heap[id]
  IN  <<o.nodeName>>
      \o Flat([i \in 1..Len(o.childNodes) |-> ProducedNames(o.childNodes[i])])
      \o (IF "content" \in o.fields THEN ProducedNames(o.content) ELSE <<>>)

\* the produced object id is the conversion of node, child by child
RECURSIVE Mirrors(_, _)
Mirrors(node, id) ==
  /\ IsObject(id)
  /\ Heap[id].nodeName = NameOf(node)
  /\ IF node.type \in {"root", "element"}
     THEN /\ "childNodes" \in Heap[id].fields
          /\ Len(Heap[id].childNodes) = Len(Kids(node))
          /\ \A i \in 1..Len(Kids(node)) :
               Mirrors(Kids(node)[i], Heap[id].childNodes[i])
     ELSE "childNodes" \notin Heap[id].fields
  /\ IsTemplate(node) =>
       /\ IsObject(Heap[id].content)
       /\ Len(Heap[Heap[id].content].childNodes) = Len(ContentKids(node))
       /\ \A i \in 1..Len(ContentKids(node)) :
            Mirrors(ContentKids(node)[i], Heap[Heap[id].content].childNodes[i])

(***************************************************************************)
(* C3                                                                      *)
(***************************************************************************)
\* C3: a source tree of the five supported kinds (whose templates carry a
\* content sub-tree) converts to a tree with as many nodes, in the same
\* depth-first order: every produced childNodes is as long as the source
\* children (empty when children is absent) and its i-th entry is the
\* conversion of the i-th child, root -> #document, element -> tag name,
\* text -> #text, comment -> #comment, doctype -> #documentType.
C3_StructuralFidelity ==
  (pc # "start" /\ Supported(tree)) =>
     /\ TemplatesHaveContent(tree) => Returned
     /\ Returned =>
          /\ Mirrors(tree, result.value)
          /\ Len(Heap) = Count(tree)
          /\ ProducedNames(result.value) = SourceNames(tree)

\* a root with two different children has been converted
C3_Witness ==
  /\ Returned
  /\ Supported(tree)
  /\ tree.type = "root"
  /\ Len(Kids(tree)) = 2
  /\ Kids(tree)[1].type = "text"
  /\ Kids(tree)[2].type = "comment"
  /\ Heap[result.value].childNodes = <<2, 3>>

(***************************************************************************)
(* C1                                                                      *)
(***************************************************************************)
\* the elements of the conversion carry the namespace the claim gives them:
\* inSvg says the node lies in an svg subtree (or the initial space is svg)
RECURSIVE NamespacesAsClaimed(_, _, _)
NamespacesAsClaimed(node, id, inSvg) ==
  LET inside == inSvg \/ (node.type = "element" /\ node.tagName = "svg")
  IN  /\ node.type = "element" =>
           Heap[id].namespaceURI = (IF inside THEN ns.svg ELSE ns.html)
      /\ node.type \in {"root", "element"} =>
           \A i \in 1..Len(Kids(node)) :
              NamespacesAsClaimed(Kids(node)[i], Heap[id].childNodes[i], inside)
      /\ IsTemplate(node) =>
           \A i \in 1..Len(ContentKids(node)) :
              NamespacesAsClaimed(ContentKids(node)[i],
                                  Heap[Heap[id].content].childNodes[i], inside)

\* C1: with initial space html (any space argument but 'svg') a produced
\* element has the SVG namespace URI exactly when it is named svg or lies
\* below an element named svg, and the HTML namespace URI otherwise, later
\* siblings of an svg element included; with initial space svg every
\* produced element has the SVG namespace URI.
C1_NamespacePropagation ==
  Returned =>
    /\ Mirrors(tree, result.value)
    /\ NamespacesAsClaimed(tree, result.value, space = "svg")

\* <div><svg><div/></svg><div/></div> converted with initial space html
C1_Witness ==
  /\ Returned
  /\ space # "svg"
  /\ tree.type = "root"
  /\ Len(Kids(tree)) = 1
  /\ Kids(tree)[1].tagName = "div"
  /\ Len(Kids(Kids(tree)[1])) = 2
  /\ Kids(Kids(tree)[1])[1].tagName = "svg"
  /\ Len(Kids(Kids(Kids(tree)[1])[1])) = 1
  /\ Kids(Kids(Kids(tree)[1])[1])[1].tagName = "div"
  /\ Kids(Kids(tree)[1])[2].tagName = "div"
  /\ Heap[2].namespaceURI = ns.html
  /\ Heap[3].namespaceURI = ns.svg
  /\ Heap[4].namespaceURI = ns.svg
  /\ Heap[5].namespaceURI = ns.html

(***************************************************************************)
(* C2                                                                      *)
(***************************************************************************)
\* the objects some element holds as its content
Fragments == {Heap[id].content : id \in {j \in 1..Len(Heap) : "content" \in Heap[j].fields}}

\* how often id occurs in the childNodes of p
Occurrences(p, id) ==
  Cardinality({j \in 1..Len(Heap[p].childNodes) : Heap[p].childNodes[j] = id})

\* the produced children of id are linked to id, each at the index of its
\* source node
RECURSIVE LinkedAsClaimed(_, _)
LinkedAsClaimed(node, id) ==
  /\ node.type \in {"root", "element"} =>
       \A i \in 1..Len(Kids(node)) :
          LET child == Heap[id].childNodes[i]
          IN  /\ Heap[child].nodeName = NameOf(Kids(node)[i])
              /\ Heap[child].parentNode = id
              /\ Occurrences(id, child) = 1
              /\ LinkedAsClaimed(Kids(node)[i], child)
  /\ IsTemplate(node) =>
       /\ Heap[Heap[id].content].parentNode = undefined
       /\ \A i \in 1..Len(ContentKids(node)) :
            LET child == Heap[Heap[id].content].childNodes[i]
            IN  /\ Heap[child].nodeName = NameOf(ContentKids(node)[i])
                /\ Heap[child].parentNode = Heap[id].content
                /\ Occurrences(Heap[id].content, child) = 1
                /\ LinkedAsClaimed(ContentKids(node)[i], child)

\* C2: every produced node but the top-level result and the content
\* fragments of templates has parentNode set to the node produced for its
\* source parent, whose childNodes holds it exactly once, at the index its
\* source node has in the source children; the top-level result and the
\* content fragments have parentNode undefined.
C2_ParentLinks ==
  Returned =>
    /\ Mirrors(tree, result.value)
    /\ Heap[result.value].parentNode = undefined
    /\ LinkedAsClaimed(tree, result.value)
    /\ \A id \in 1..Len(Heap) :
         IF id = result.value \/ id \in Fragments
         THEN Heap[id].parentNode = undefined
         ELSE /\ IsObject(Heap[id].parentNode)
              /\ Occurrences(Heap[id].parentNode, id) = 1

\* a template with a child and a content sub-tree, converted
C2_Witness ==
  /\ Returned
  /\ IsTemplate(tree)
  /\ Len(Kids(tree)) = 1
  /\ tree.content # <<>>
  /\ Heap[result.value].parentNode = undefined
  /\ Heap[Heap[result.value].childNodes[1]].parentNode = result.value
  /\ Heap[result.value].content \in Fragments
  /\ Heap[Heap[result.value].content].parentNode = undefined

(***************************************************************************)
(* C5                                                                      *)
(***************************************************************************)
\* the produced elements keep template content apart, as the claim says
RECURSIVE ContentAsClaimed(_, _)
ContentAsClaimed(node, id) ==
  /\ node.type = "element" /\ ~IsTemplate(node) => "content" \notin Heap[id].fields
  /\ IsTemplate(node) =>
       LET c == Heap[id].content
       IN  /\ "content" \in Heap[id].fields
           /\ IsObject(c)
           /\ Heap[c].nodeName = "#document-fragment"
           /\ Len(Heap[c].childNodes) = Len(ContentKids(node))
           /\ \A i \in 1..Len(ContentKids(node)) :
                /\ Mirrors(ContentKids(node)[i], Heap[c].childNodes[i])
                /\ Heap[c].childNodes[i] \notin
                     {Heap[id].childNodes[j] : j \in 1..Len(Heap[id].childNodes)}
                /\ ContentAsClaimed(ContentKids(node)[i], Heap[c].childNodes[i])
           /\ Len(Heap[id].childNodes) = Len(Kids(node))
           /\ c \notin {Heap[id].childNodes[j] : j \in 1..Len(Heap[id].childNodes)}
  /\ node.type \in {"root", "element"} =>
       \A i \in 1..Len(Kids(node)) :
          ContentAsClaimed(Kids(node)[i], Heap[id].childNodes[i])

\* C5: the element produced for a template has as content a
\* #document-fragment whose childNodes are the in-order conversions of the
\* children of the source content sub-tree; the converted content is under
\* content only, childNodes holding the conversions of the template's own
\* children (none for children = []); no other produced element has a
\* content field.
C5_TemplateContent ==
  Returned =>
    /\ Mirrors(tree, result.value)
    /\ ContentAsClaimed(tree, result.value)

\* <template> with children = [] and content = {children: [text]} converted
C5_Witness ==
  /\ Returned
  /\ IsTemplate(tree)
  /\ Kids(tree) = <<>>
  /\ Len(ContentKids(tree)) = 1
  /\ ContentKids(tree)[1].type = "text"
  /\ Heap[result.value].childNodes = <<>>
  /\ Len(Heap[Heap[result.value].content].childNodes) = 1
  /\ Heap[Heap[Heap[result.value].content].childNodes[1]].value = "x"

(***************************************************************************)
(* C7                                                                      *)
(***************************************************************************)
\* the dispatcher is handed a node of an unsupported kind whenever the tree
\* itself is one
TopUnsupported == tree.type \notin {"root", "element", "text", "comment", "doctype"}

\* C7 (the claim as stated): a node of an unsupported kind, as the argument
\* of toParse5 or as a child, makes the call fail with an error; the call
\* never returns a value, undefined included.
C7_UnsupportedThrows ==
  (pc # "start" /\ ~Supported(tree)) => result.kind = "threw"

\* what the code does for an unsupported child: child.parentNode = p5 throws
C7_UnsupportedChildThrows ==
  (pc # "start" /\ ~Supported(tree) /\ ~TopUnsupported) => result.kind = "threw"

Keys ==
  {<<"id">>, <<"disabled">>, <<"xlink", ":", "href">>, <<"xmlns">>, <<"foo", ":", "bar">>}

Values == {JsBool(TRUE), JsBool(FALSE), JsNum(0), JsNum(12), JsStr(""), JsStr("a")}

Entries == [key : Keys, value : Values]

\* a property mapping as the sequence of its entries in insertion order has
\* no key twice
IsMapping(p) == \A i, j \in 1..Len(p) : p[i].key = p[j].key => i = j

\* an element with properties p: alone (named div or svg), below an svg
\* element, and as the later sibling of an svg element
Placed(shape, p) ==
  CASE shape = "div" -> Element("div", p, Some(<<>>), <<>>)
    [] shape = "svg" -> Element("svg", p, Some(<<>>), <<>>)
    [] shape = "below svg" ->
         Element("svg", <<>>, Some(<<Element("div", p, Some(<<>>), <<>>)>>), <<>>)
    [] shape = "after svg" ->
         Element("div", <<>>, Some(<<Element("svg", <<>>, Some(<<>>), <<>>),
                                     Element("div", p, Some(<<>>), <<>>)>>), <<>>)

InitAttrs ==
  /\ \E n \in 0..MaxProps : \E p \in [1..n -> Entries] :
       \E shape \in {"div", "svg", "below svg", "after svg"} :
          /\ IsMapping(p)
          /\ tree = Placed(shape, [i \in 1..n |-> p[i]])
  /\ space \in {"html", "svg"}
  /\ pc = "start"
  /\ result = NoResult
  /\ again = NoResult

SpecAttrs == InitAttrs /\ [][Next]_vars

\* the attribute-information tables by name
Table(inSvg) == IF inSvg THEN svg ELSE html

\* the values the claims call falsy, and the text they expect for the others
ClaimedFalsy == {JsBool(FALSE), JsNum(0), JsStr("")}

ClaimedText(v) ==
  CASE v = JsBool(TRUE) -> ""
    [] v = JsNum(0) -> "0"
    [] v = JsNum(12) -> "12"
    [] v = JsStr("") -> ""
    [] v = JsStr("a") -> "a"
    [] OTHER -> "?"

\* the entries of a property mapping for which an attrs entry is claimed,
\* the key classified by table t
ClaimedKept(properties, t) ==
  SelectSeq(properties,
            LAMBDA e : ~(\/ e.value = JsBool(FALSE)
                         \/ find(t, e.key).boolean /\ e.value \in ClaimedFalsy))

\* the key an attrs entry was built from
KeyOf(a) == IF "prefix" \in a.has /\ a.prefix # <<>> THEN a.prefix \o <<":">> \o a.name ELSE a.name

\* P(properties, attrs, inSvg) for every element of the conversion, inSvg
\* saying that the schema the element was reached with is svg
RECURSIVE ForElements(_, _, _, _)
ForElements(P(_, _, _, _), node, id, inSvg) ==
  LET inside == inSvg \/ (node.type = "element" /\ node.tagName = "svg")
  IN  /\ node.type = "element" => P(node.tagName, node.properties, Heap[id].attrs, inSvg)
      /\ node.type \in {"root", "element"} =>
           \A i \in 1..Len(Kids(node)) :
              ForElements(P, Kids(node)[i], Heap[id].childNodes[i], inside)
      /\ IsTemplate(node) =>
           \A i \in 1..Len(ContentKids(node)) :
              ForElements(P, ContentKids(node)[i],
                          Heap[Heap[id].content].childNodes[i], inside)

(***************************************************************************)
(* C4                                                                      *)
(***************************************************************************)
FilteredAsClaimed(tagName, properties, attrs, inSvg) ==
  LET kept == ClaimedKept(properties, Table(inSvg))
  IN  /\ Len(attrs) = Len(kept)
      /\ \A j \in 1..Len(kept) :
           /\ KeyOf(attrs[j]) = kept[j].key
           /\ attrs[j].value = ClaimedText(kept[j].value)

SvgOwnAttributes(tagName, properties, attrs, inSvg) ==
  (tagName = "svg" /\ ~inSvg) => attrs = hValues(svg, properties, 1, <<>>)

\* every other element has the attrs a lookup in the table of its scope gives
ScopedAttributes(tagName, properties, attrs, inSvg) ==
  ~(tagName = "svg" /\ ~inSvg) => attrs = hValues(Table(inSvg), properties, 1, <<>>)

C9_SvgSwitchForDescendants ==
  Returned => ForElements(ScopedAttributes, tree, result.value, space = "svg")

(***************************************************************************)
(* C10                                                                     *)
(***************************************************************************)
ClaimedForeign(key, t) == find(t, key).space \notin {null, "html", "svg"}

\* C10 as stated: prefix and name are the parts of the key around its colon
SplitAsStated(attrs, kept, t) ==
  \A j \in 1..Len(kept) :
     IF ClaimedForeign(kept[j].key, t)
     THEN /\ attrs[j].has = {"prefix", "namespace"}
          /\ attrs[j].namespace = ns[find(t, kept[j].key).space]
          /\ attrs[j].prefix \o <<":">> \o attrs[j].name = kept[j].key
          /\ ":" \notin {attrs[j].prefix[i] : i \in 1..Len(attrs[j].prefix)}
     ELSE /\ attrs[j].has = {}
          /\ attrs[j].name = kept[j].key

\* C10 amended: a foreign key without a colon keeps its name, prefix ''
SplitAsAmended(attrs, kept, t) ==
  \A j \in 1..Len(kept) :
     IF ClaimedForeign(kept[j].key, t)
     THEN /\ attrs[j].has = {"prefix", "namespace"}
          /\ attrs[j].namespace = ns[find(t, kept[j].key).space]
          /\ IF ":" \in {kept[j].key[i] : i \in 1..Len(kept[j].key)}
             THEN /\ attrs[j].prefix \o <<":">> \o attrs[j].name = kept[j].key
                  /\ ":" \notin {attrs[j].prefix[i] : i \in 1..Len(attrs[j].prefix)}
             ELSE /\ attrs[j].prefix = <<>>
                  /\ attrs[j].name = kept[j].key
     ELSE /\ attrs[j].has = {}
          /\ attrs[j].name = kept[j].key

NamespacedAsStated(tagName, properties, attrs, inSvg) ==
  LET kept == ClaimedKept(properties, Table(inSvg))
  IN  Len(attrs) = Len(kept) /\ SplitAsStated(attrs, kept, Table(inSvg))

NamespacedAsAmended(tagName, properties, attrs, inSvg) ==
  LET kept == ClaimedKept(properties, Table(inSvg))
  IN  Len(attrs) = Len(kept) /\ SplitAsAmended(attrs, kept, Table(inSvg))

Coords == {undefinedNumber} \cup 0..MaxCoord

Points == [present : {TRUE}, line : Coords, column : Coords, offset : Coords] \cup {NoPoint}

Positions == [present : {TRUE}, start : Points, end : Points] \cup {NoPosition}

At(node, p) == [node EXCEPT !.position = p]

\* a tree of the given shape, every node of it with position p
Positioned(shape, p) ==
  CASE shape = "text" -> At(Text("x"), p)
    [] shape = "comment" -> At(Comment("c"), p)
    [] shape = "doctype" -> At(Doctype, p)
    [] shape = "element" -> At(Element("div", <<>>, Some(<<>>), <<>>), p)
    [] shape = "root" -> At(Root(Some(<<At(Text("x"), p)>>), Data(TRUE)), p)
    [] shape = "template" ->
         At(Element("template", <<>>, Some(<<>>),
                    <<At(Root(Some(<<At(Comment("c"), p)>>), Data(FALSE)), p)>>), p)

InitPos ==
  /\ \E p \in Positions :
       \E shape \in {"text", "comment", "doctype", "element", "root", "template"} :
          tree = Positioned(shape, p)
  /\ space \in {"html", "svg"}
  /\ pc = "start"
  /\ result = NoResult
  /\ again = NoResult

SpecPos == InitPos /\ [][Next]_vars

(***************************************************************************)
(* C6                                                                      *)
(***************************************************************************)
\* start and end are there, each with line, column and offset
Complete(p) ==
  /\ p.present /\ p.start.present /\ p.end.present
  /\ undefinedNumber \notin {p.start.line, p.start.column, p.start.offset,
                             p.end.line, p.end.column, p.end.offset}

Verbatim(p) ==
  [startLine |-> p.start.line, startCol |-> p.start.column,
   startOffset |-> p.start.offset, endLine |-> p.end.line,
   endCol |-> p.end.column, endOffset |-> p.end.offset]

\* C6 (the claim as stated): sourceCodeLocation of a produced node is absent
\* when the source position is absent or incomplete, a point that lacks
\* line, column or offset included, and otherwise holds the six numbers of
\* the position verbatim; it is never partially filled.
C6_LocationAbsentOrComplete ==
  Returned =>
    \A id \in 1..Len(Heap) :
       IF Complete(tree.position)
       THEN /\ "sourceCodeLocation" \in Heap[id].fields
            /\ Heap[id].sourceCodeLocation = Verbatim(tree.position)
       ELSE "sourceCodeLocation" \notin Heap[id].fields

\* what the code does: sourceCodeLocation is set exactly when position,
\* start and end are there, to the six fields as they are, undefined or not
C6_LocationWhenStartAndEnd ==
  Returned =>
    \A id \in 1..Len(Heap) :
       IF tree.position.present /\ tree.position.start.present
          /\ tree.position.end.present
       THEN /\ "sourceCodeLocation" \in Heap[id].fields
            /\ Heap[id].sourceCodeLocation = Verbatim(tree.position)
       ELSE "sourceCodeLocation" \notin Heap[id].fields

====
